---------------------------- MODULE Spec2Model ----------------------------
(***************************************************************************)
(* State-machine model of wpspecdev.em.TmmDriver (src/wpspecdev/em.py),    *)
(* of the tolerance test of the STPV power density                         *)
(* (src/wpspecdev/tests/test_therml.py), of wptherml.exciton.ExcitonDriver *)
(* (src/wptherml/exciton.py) and of the finite-difference script           *)
(* src/examples/TiN_stpv_demo.py, and of wptherml.spin_boson's             *)
(* SpinBosonDriver (src/wptherml/spin_boson.py).  Each has its own         *)
(* variables and its own specification (Spec, SpecTest, SpecExciton,       *)
(* SpecDemo, SpecSpinBoson); a specification holds the variables of the    *)
(* others at Undef.                                                        *)
(*                                                                         *)
(* One TmmDriver object is modelled.  Its attributes are the variables,    *)
(* Init is the object right after __init__(thickness), and every method    *)
(* call and every attribute assignment a caller makes (the examples change *)
(* thickness_array and incident_angle in place) is one action.  A call     *)
(* that raises is modelled as the Python interpreter runs it: the          *)
(* statements before the raising one take effect, the rest do not, and the *)
(* exception (type and source line) is recorded in `exc`.                  *)
(*                                                                         *)
(* Numbers.  Wavelengths are integers in units of 400/9 nm, the step of    *)
(* np.linspace(400e-9, 800e-9, 10), which is then 9, 10, ..., 18.  Every   *)
(* other quantity is an                                                    *)
(* exact rational multiple of a power of pi, [pi |-> k, n |-> a, d |-> b]  *)
(* standing for pi^k * a / b; np.sqrt(v) is kept as [sqrt_of |-> v].       *)
(* Arrays are functions on 0..len-1, so indices are the Python indices.    *)
(***************************************************************************)
EXTENDS Integers, Sequences, FiniteSets, TLC

VARIABLES
    thickness_array,          \* self.thickness_array              (em.py:92)
    wavelength_array,         \* self.wavelength_array             (em.py:90)
    wavenumber_array,         \* self.wavenumber_array             (em.py:91)
    polarization,             \* self.polarization                 (em.py:93)
    incident_angle,           \* self.incident_angle               (em.py:94)
    _k0_array,                \* self._k0_array                    (em.py:135)
    _kx_array,                \* self._kx_array                    (em.py:138)
    _kzl_array,               \* self._kzl_array                   (em.py:145)
    _kz_array,                \* self._kz_array                    (em.py:163)
    _tm,                      \* self._tm                          (em.py:158)
    reflectivity_array,       \* self.reflectivity_array           (em.py:32)
    transmissivity_array,     \* self.transmissivity_array         (em.py:35)
    emissivity_array,         \* self.emissivity_array             (em.py:38)
    last_call,                \* the operation that ran last, with its arguments
    exc,                      \* the exception the last operation ended with
    pre,                      \* the derived attributes as they were before it
    stale_reads,              \* derived attributes it read that were not
                              \* produced for the configuration it ran on
    pm_built,                 \* <<wavelength index, layer>> of every P matrix built
    repeated,                 \* last_call is a compute_spectrum that directly
                              \* follows a compute_spectrum, nothing in between
    \* test_compute_stpv_power_density (tests/test_therml.py:31-48)
    stpv_power_density,       \* test.stpv_power_density      (test_therml.py:47)
    test_outcome,             \* "not_run", "passed" or "failed" (the assert)
    \* ExcitonDriver (wptherml/exciton.py)
    exciton_energy,           \* self.exciton_energy             (exciton.py:41)
    number_of_monomers,       \* self.number_of_monomers         (exciton.py:45)
    displacement_between_monomers,  \*                            (exciton.py:49)
    transition_dipole_moment, \* self.transition_dipole_moment   (exciton.py:54)
    refractive_index,         \* self.refractive_index           (exciton.py:58)
    coords,                   \* self.coords, 3 x N              (exciton.py:74)
    exciton_hamiltonian,      \* self.exciton_hamiltonian, N x N (exciton.py:27)
    exciton_call,             \* the ExcitonDriver method that ran last
    \* examples/TiN_stpv_demo.py
    pc,                       \* the statement of the script that runs next
    test,                     \* the attributes of the object `test`
    _delta_d_sio2,            \* the displacement             (TiN_stpv_demo.py:41)
    forward,                  \* _solar_power_f, _emitted_power_f,
                              \* _atmospheric_power_f
    backward,                 \* _solar_power_b, _emitted_power_b,
                              \* _atmospheric_power_b
    numeric_grad,             \* _solar_power_numeric_grad, ...
    d0,                       \* thickness_array[1] when the script starts
    \* SpinBosonDriver (wptherml/spin_boson.py)
    sb_args,                  \* `args`, the dict given to __init__
                              \* (spin_boson.py:58)
    self,                     \* the attributes of the object: a function from
                              \* the names assigned so far to their values
    sb_call,                  \* the SpinBosonDriver method that ran last
    sb_exc,                   \* the exception it ended with
    sb_done                   \* the methods that have returned normally

tmmVars == <<thickness_array, wavelength_array, wavenumber_array,
             polarization, incident_angle, _k0_array, _kx_array, _kzl_array,
             _kz_array, _tm, reflectivity_array, transmissivity_array,
             emissivity_array, last_call, exc, pre, stale_reads, pm_built,
             repeated>>

testVars == <<stpv_power_density, test_outcome>>

excitonVars == <<exciton_energy, number_of_monomers,
                 displacement_between_monomers, transition_dipole_moment,
                 refractive_index, coords, exciton_hamiltonian, exciton_call>>

demoVars == <<pc, test, _delta_d_sio2, forward, backward, numeric_grad, d0>>

spinBosonVars == <<sb_args, self, sb_call, sb_exc, sb_done>>

vars == <<tmmVars, testVars, excitonVars, demoVars, spinBosonVars>>

-----------------------------------------------------------------------------
(* Bounds of the model                                                     *)

\* thickness values tried, in units of 100 nm: -1 .. MaxThickness
MaxThickness == 1

Thicknesses == -1 .. MaxThickness

-----------------------------------------------------------------------------
(* Python values                                                           *)

\* Attribute values are tagged records, so that any two can be compared.
\* an attribute that no statement has assigned yet
Undef == [kind |-> "undef"]

\* the value of a call that returns without a return statement
None == [kind |-> "None"]

\* a numpy array
Array(a) == [kind |-> "array", v |-> a]

NoExc == [type |-> "none", line |-> 0]

\* the variables of an object that the specification at hand does not have
NoTmmDriver ==
    /\ thickness_array = Undef
    /\ wavelength_array = Undef
    /\ wavenumber_array = Undef
    /\ polarization = Undef
    /\ incident_angle = Undef
    /\ _k0_array = Undef
    /\ _kx_array = Undef
    /\ _kzl_array = Undef
    /\ _kz_array = Undef
    /\ _tm = Undef
    /\ reflectivity_array = Undef
    /\ transmissivity_array = Undef
    /\ emissivity_array = Undef
    /\ last_call = Undef
    /\ exc = Undef
    /\ pre = Undef
    /\ stale_reads = Undef
    /\ pm_built = Undef
    /\ repeated = Undef

NoTest ==
    /\ stpv_power_density = Undef
    /\ test_outcome = Undef

NoExcitonDriver ==
    /\ exciton_energy = Undef
    /\ number_of_monomers = Undef
    /\ displacement_between_monomers = Undef
    /\ transition_dipole_moment = Undef
    /\ refractive_index = Undef
    /\ coords = Undef
    /\ exciton_hamiltonian = Undef
    /\ exciton_call = Undef

NoDemo ==
    /\ pc = Undef
    /\ test = Undef
    /\ _delta_d_sio2 = Undef
    /\ forward = Undef
    /\ backward = Undef
    /\ numeric_grad = Undef
    /\ d0 = Undef

NoSpinBosonDriver ==
    /\ sb_args = Undef
    /\ self = Undef
    /\ sb_call = Undef
    /\ sb_exc = Undef
    /\ sb_done = Undef

Raise(type, line) == [type |-> type, line |-> line]

\* len() of an array
ArrayLen(a) == Cardinality(DOMAIN a)

-----------------------------------------------------------------------------
(* Exact arithmetic on pi^k * n / d                                        *)

Abs(x) == IF x < 0 THEN -x ELSE x

RECURSIVE GCD(_, _)
GCD(a, b) == IF b = 0 THEN a ELSE GCD(b, a % b)

\* pi^k * n / d in lowest terms, d > 0
Num(k, n, d) ==
    LET g == GCD(Abs(n), Abs(d))
        s == IF d < 0 THEN -1 ELSE 1
    IN  IF n = 0 THEN [pi |-> 0, n |-> 0, d |-> 1]
        ELSE [pi |-> k, n |-> s * (n \div g), d |-> s * (d \div g)]

Rational(n, d) == Num(0, n, d)

Mul(a, b) == Num(a.pi + b.pi, a.n * b.n, a.d * b.d)

\* a - b, for operands that carry the same power of pi (or are zero)
Sub(a, b) ==
    LET k == IF a.n = 0 THEN b.pi ELSE a.pi
        g == GCD(a.d, b.d)
    IN  Num(k, a.n * (b.d \div g) - b.n * (a.d \div g), a.d * (b.d \div g))

Neg(a) == Num(a.pi, -a.n, a.d)

Add(a, b) == Sub(a, Neg(b))

Square(a) == Mul(a, a)

\* a / b for b # 0
Div(a, b) == Num(a.pi - b.pi, a.n * b.d, a.d * b.n)

\* np.pi * 2
TwoPi == Num(1, 2, 1)

\* np.sqrt: kept as the radicand
np_sqrt(v) == [sqrt_of |-> v]

-----------------------------------------------------------------------------
(* Angles: each has an exact rational sine and cosine                      *)

\* 0. (the constructor's value), atan(3/4) and np.pi/2 (grazing incidence)
Angles == {"zero", "atan_3_4", "pi_2"}

np_sin(a) ==
    IF a = "zero" THEN Rational(0, 1)
    ELSE IF a = "atan_3_4" THEN Rational(3, 5) ELSE Rational(1, 1)

\* the cosine of np.pi/2 is 0 here; in IEEE doubles it is 6.1e-17, zero to
\* any numerical tolerance
np_cos(a) ==
    IF a = "zero" THEN Rational(1, 1)
    ELSE IF a = "atan_3_4" THEN Rational(4, 5) ELSE Rational(0, 1)

-----------------------------------------------------------------------------
(* numpy array constructors used by __init__                               *)

\* np.linspace(a, b, n), for a grid on which the steps are whole
np_linspace(a, b, n) == [i \in 0 .. n - 1 |-> a + (i * (b - a)) \div (n - 1)]

\* np.tile(a, reps) of a one-dimensional array
np_tile(a, reps) ==
    [j \in 0 .. ArrayLen(a) * reps - 1 |-> a[j % ArrayLen(a)]]

\* np.reshape(flat, (rows, cols)), row-major
np_reshape(flat, rows, cols) ==
    [r \in 0 .. rows - 1 |-> [c \in 0 .. cols - 1 |-> flat[r * cols + c]]]


\* a * b elementwise on one-dimensional arrays, numpy broadcasting rules
Broadcastable(a, b) ==
    ArrayLen(a) = ArrayLen(b) \/ ArrayLen(a) = 1 \/ ArrayLen(b) = 1

ArrayMul(a, b) ==
    LET len == IF ArrayLen(a) >= ArrayLen(b) THEN ArrayLen(a) ELSE ArrayLen(b)
    IN  [x \in 0 .. len - 1 |->
            Mul(a[IF ArrayLen(a) = 1 THEN 0 ELSE x],
                b[IF ArrayLen(b) = 1 THEN 0 ELSE x])]

\* the names numpy.linalg exports; there is no numpy.linalg.eye
np_linalg ==
    {"cholesky", "cond", "det", "eig", "eigh", "eigvals", "eigvalsh", "inv",
     "lstsq", "matrix_power", "matrix_rank", "multi_dot", "norm", "pinv",
     "qr", "slogdet", "solve", "svd", "tensorinv", "tensorsolve", "LinAlgError"}

-----------------------------------------------------------------------------
(* __init__                                                                *)

number_of_wavelengths == 10

number_of_layers == 3

\* np.linspace(400e-9, 800e-9, self.number_of_wavelengths), in units of
\* 400/9 nm
InitWavelengthArray == np_linspace(9, 18, number_of_wavelengths)

\* 1 / self.wavelength_array
Reciprocal(wl) == [x \in DOMAIN wl |-> Div(Rational(1, 1), Rational(wl[x], 1))]

\* np.array([0, thickness, 0])
InitThicknessArray(t) == [i \in 0 .. 2 |-> IF i = 1 THEN t ELSE 0]

\* np.array([1+0j, 1.5+0j, 1+0j]); every imaginary part is zero
LayerIndices ==
    [i \in 0 .. 2 |-> IF i = 1 THEN Rational(3, 2) ELSE Rational(1, 1)]

\* self._refractive_index_array: the tiled indices reshaped to
\* (number_of_wavelengths, number_of_layers); no method assigns it again
_refractive_index_array ==
    np_reshape(np_tile(LayerIndices, number_of_wavelengths),
               number_of_wavelengths, number_of_layers)

\* the attributes __init__ assigns
CtorAttrs ==
    {"thickness", "number_of_wavelengths", "number_of_layers",
     "wavelength_array", "wavenumber_array", "thickness_array",
     "polarization", "incident_angle", "_refractive_index_array"}

\* the derived and output attributes, as one record
Derived ==
    [_k0_array |-> _k0_array, _kx_array |-> _kx_array,
     _kzl_array |-> _kzl_array, _kz_array |-> _kz_array, _tm |-> _tm,
     reflectivity_array |-> reflectivity_array,
     transmissivity_array |-> transmissivity_array,
     emissivity_array |-> emissivity_array]

\* no derived attribute assigned: the object as __init__ leaves it
UndefDerived ==
    [_k0_array |-> Undef, _kx_array |-> Undef, _kzl_array |-> Undef,
     _kz_array |-> Undef, _tm |-> Undef, reflectivity_array |-> Undef,
     transmissivity_array |-> Undef, emissivity_array |-> Undef]

\* the attribute names the object has in a state with derived attributes d
Attrs(d) == CtorAttrs \cup {a \in DOMAIN d : d[a] # Undef}

\* TmmDriver(thickness).  self.thickness (line 87) is written here and read
\* nowhere, so it is not kept as a variable: thickness_array[1] holds it.
Init ==
    /\ \E thickness \in Thicknesses :
          /\ thickness_array = InitThicknessArray(thickness)
          /\ last_call = [op |-> "__init__", args |-> <<thickness>>]
    /\ wavelength_array = InitWavelengthArray
    /\ wavenumber_array = Reciprocal(InitWavelengthArray)
    /\ polarization = "s"
    /\ incident_angle = "zero"
    /\ _k0_array = Undef
    /\ _kx_array = Undef
    /\ _kzl_array = Undef
    /\ _kz_array = Undef
    /\ _tm = Undef
    /\ reflectivity_array = Undef
    /\ transmissivity_array = Undef
    /\ emissivity_array = Undef
    /\ exc = NoExc
    /\ pre = UndefDerived
    /\ stale_reads = {}
    /\ pm_built = {}
    /\ repeated = FALSE
    /\ NoTest
    /\ NoExcitonDriver
    /\ NoDemo
    /\ NoSpinBosonDriver

-----------------------------------------------------------------------------
(* _compute_pm, _compute_dm, _compute_tm, _compute_kz                      *)
(* Each is the outcome of one call: the exception it ends with (NoExc when *)
(* it returns) and the value it returns.  `attrs` is the set of attribute  *)
(* names the object has when the call is made.                             *)

\* the propagation matrix of layer i at wavelength index idx, as a symbol
PMatrix(idx, i) == [kind |-> "P", idx |-> idx, i |-> i]

\* a numpy array whose elements are scalars: indexing it twice fails
OneDimensional(a) == \A k \in DOMAIN a : a[k] \in Int

\* the same call with both reads of line 302 succeeding
ComputePmReturnsP(idx, i, attrs) == [exc |-> NoExc, value |-> PMatrix(idx, i)]

\* _compute_pm(idx, i): the first read, self._kxz_array on line 302, is of a
\* name no statement assigns; with it, self.thickness_array[idx][i] indexes
\* the one-dimensional thickness_array twice; otherwise P is returned
_compute_pm(idx, i, attrs) ==
    IF "_kxz_array" \notin attrs
    THEN [exc |-> Raise("AttributeError", 302), value |-> Undef]
    ELSE IF OneDimensional(thickness_array)
    THEN [exc |-> Raise("IndexError", 302), value |-> Undef]
    ELSE [exc |-> NoExc, value |-> PMatrix(idx, i)]

\* lines 237-253: the D matrix of a layer with refractive index n;
\* any polarization other than "s" and "p" prints and leaves D all zero
DMatrix(pol, angle, n) ==
    LET zero == Rational(0, 1)
        one  == Rational(1, 1)
        s    == <<one, one, Mul(np_cos(angle), n), Neg(Mul(np_cos(angle), n))>>
        p    == <<np_cos(angle), np_cos(angle), n, Neg(n)>>
        none == <<zero, zero, zero, zero>>
        flat == IF pol = "s" THEN s ELSE IF pol = "p" THEN p ELSE none
    IN  [r \in 0 .. 1 |-> [c \in 0 .. 1 |-> flat[2 * r + c + 1]]]

\* (D[0][0]*D[1][1]) - (D[0][1]*D[1][0])
Determinant(D) == Sub(Mul(D[0][0], D[1][1]), Mul(D[0][1], D[1][0]))

\* line 254: D_inv = 1/determinant, a scalar; numpy scalars divide by zero
\* without raising and give inf
DInv(D) ==
    IF Determinant(D).n = 0
    THEN [kind |-> "inf"]
    ELSE [kind |-> "scalar", v |-> Div(Rational(1, 1), Determinant(D))]

\* _compute_dm(idx, num_layers) as _compute_tm calls it, num_layers an int:
\* np.linalg.eye on line 233 does not exist; with it, len(num_layers) on
\* line 234 is len() of an int
_compute_dm(idx, num_layers, attrs) ==
    IF "eye" \notin np_linalg
    THEN [exc |-> Raise("AttributeError", 233), value |-> Undef]
    ELSE [exc |-> Raise("TypeError", 234), value |-> Undef]

\* _compute_tm(): np.linalg.eye on line 195 does not exist; with it,
\* len(self.number_of_layers) on line 197 is len() of an int as soon as the
\* outer loop runs once; lines 205-206 read _k0_array and _kz_array; the
\* method has no return statement
_compute_tm(attrs) ==
    IF "eye" \notin np_linalg
    THEN [exc |-> Raise("AttributeError", 195), value |-> Undef]
    ELSE IF ArrayLen(wavenumber_array) > 0
    THEN [exc |-> Raise("TypeError", 197), value |-> Undef]
    ELSE IF "_k0_array" \notin attrs
    THEN [exc |-> Raise("AttributeError", 205), value |-> Undef]
    ELSE IF "_kz_array" \notin attrs
    THEN [exc |-> Raise("AttributeError", 206), value |-> Undef]
    ELSE [exc |-> NoExc, value |-> None]

\* the module-level names of em.py
em_globals == {"SpectrumDriver", "np", "TmmDriver"}

\* _compute_kz(): the right-hand side reads the global name ml
_compute_kz(attrs) ==
    IF "ml" \notin em_globals
    THEN [exc |-> Raise("NameError", 163), value |-> Undef]
    ELSE [exc |-> NoExc, value |-> None]

-----------------------------------------------------------------------------
(* compute_spectrum                                                        *)

\* np.pi * 2 / wavelength_array added onto the _k0_array of the previous call
K0ArrayAccumulated(wl) ==
    LET fresh == [x \in DOMAIN wl |-> Div(TwoPi, Rational(wl[x], 1))]
    IN  IF _k0_array.kind = "array" /\ DOMAIN _k0_array.v = DOMAIN wl
        THEN [x \in DOMAIN wl |-> Sub(_k0_array.v[x], Neg(fresh[x]))]
        ELSE fresh

\* line 135: np.pi * 2 / self.wavelength_array
K0Array(wl) == [x \in DOMAIN wl |-> Div(TwoPi, Rational(wl[x], 1))]

\* self._refractive_index_array[:, 0]
FirstColumn(ri) == [x \in DOMAIN ri |-> ri[x][0]]

\* line 138: self._refractive_index_array[:, 0] * np.sin(angle) * self._k0_array
KxArray(ri, angle, k0) ==
    ArrayMul([x \in DOMAIN ri |-> Mul(FirstColumn(ri)[x], np_sin(angle))], k0)

\* line 143: one row wavenumber_array[x] * _refractive_index_array[x] per x
RefTimesWn(wn, ri) ==
    [x \in DOMAIN wn |-> [c \in DOMAIN ri[x] |-> Mul(wn[x], ri[x][c])]]

\* line 145: np.sqrt(rtw**2 - (rtw * np.sin(angle)**2))
KzlArray(rtw, angle) ==
    [x \in DOMAIN rtw |-> [c \in DOMAIN rtw[x] |->
        np_sqrt(Sub(Square(rtw[x][c]),
                    Mul(rtw[x][c], Square(np_sin(angle)))))]]

\* The whole call: the derived attributes after it, the exception it ends
\* with, and the derived attributes it read that were not produced from the
\* current wavelength_array.
compute_spectrum ==
    LET k0   == Array(K0Array(wavelength_array))
        d1   == [Derived EXCEPT !._k0_array = k0]
    IN  IF ~Broadcastable(FirstColumn(_refractive_index_array), k0.v)
        THEN [exc |-> Raise("ValueError", 138), derived |-> d1, stale |-> {}]
        ELSE
        LET kx   == Array(KxArray(_refractive_index_array, incident_angle, k0.v))
            rtw  == RefTimesWn(wavenumber_array, _refractive_index_array)
            kzl  == Array(KzlArray(rtw, incident_angle))
            d2   == [d1 EXCEPT !._kx_array = kx, !._kzl_array = kzl]
            tm   == _compute_tm(Attrs(d2))
            read == IF wavenumber_array # Reciprocal(wavelength_array)
                    THEN {"wavenumber_array"} ELSE {}
        IN  IF tm.exc # NoExc
            THEN [exc |-> tm.exc, derived |-> d2, stale |-> read]
            ELSE [exc |-> NoExc, derived |-> [d2 EXCEPT !._tm = tm.value],
                  stale |-> read]

-----------------------------------------------------------------------------
(* Actions: one per method call and per attribute a caller assigns         *)

\* what a call leaves in the derived attributes d
SetDerived(d) ==
    /\ _k0_array' = d._k0_array
    /\ _kx_array' = d._kx_array
    /\ _kzl_array' = d._kzl_array
    /\ _kz_array' = d._kz_array
    /\ _tm' = d._tm
    /\ reflectivity_array' = d.reflectivity_array
    /\ transmissivity_array' = d.transmissivity_array
    /\ emissivity_array' = d.emissivity_array

Configuration ==
    <<thickness_array, wavelength_array, wavenumber_array,
      polarization, incident_angle>>

\* mt.compute_spectrum()
ComputeSpectrum ==
    LET r == compute_spectrum
    IN  /\ SetDerived(r.derived)
        /\ exc' = r.exc
        /\ stale_reads' = r.stale
        /\ pre' = Derived
        /\ repeated' = (last_call.op = "compute_spectrum")
        /\ last_call' = [op |-> "compute_spectrum", args |-> <<>>]
        /\ UNCHANGED <<Configuration, pm_built>>
        /\ UNCHANGED <<testVars, excitonVars, demoVars, spinBosonVars>>

\* a direct call of a helper that assigns no attribute itself
HelperCall(op, args, r) ==
    /\ exc' = r.exc
    /\ stale_reads' = {}
    /\ pre' = Derived
    /\ repeated' = FALSE
    /\ last_call' = [op |-> op, args |-> args]
    /\ SetDerived(Derived)
    /\ UNCHANGED Configuration
    /\ UNCHANGED <<testVars, excitonVars, demoVars, spinBosonVars>>

\* the wavelength indices and layer indices passed to the helpers
IdxArgs == {0, number_of_wavelengths - 1}

LayerArgs == 0 .. number_of_layers - 1

\* mt._compute_tm()
CallComputeTm ==
    /\ HelperCall("_compute_tm", <<>>, _compute_tm(Attrs(Derived)))
    /\ UNCHANGED pm_built

\* mt._compute_dm(idx, num_layers)
CallComputeDm ==
    \E idx \in IdxArgs :
        /\ HelperCall("_compute_dm", <<idx, number_of_layers>>,
                      _compute_dm(idx, number_of_layers, Attrs(Derived)))
        /\ UNCHANGED pm_built

\* mt._compute_pm(idx, i)
CallComputePm ==
    \E idx \in IdxArgs, i \in LayerArgs :
        LET r == _compute_pm(idx, i, Attrs(Derived))
        IN  /\ HelperCall("_compute_pm", <<idx, i>>, r)
            /\ pm_built' = IF r.exc = NoExc
                           THEN pm_built \cup {<<idx, i>>}
                           ELSE pm_built

\* mt._compute_kz()
CallComputeKz ==
    /\ HelperCall("_compute_kz", <<>>, _compute_kz(Attrs(Derived)))
    /\ UNCHANGED pm_built

\* an attribute assignment by the caller: nothing is recomputed
SetAttr ==
    /\ exc' = NoExc
    /\ stale_reads' = {}
    /\ pre' = Derived
    /\ repeated' = FALSE
    /\ last_call' = [op |-> "setattr", args |-> <<>>]
    /\ SetDerived(Derived)
    /\ UNCHANGED pm_built
    /\ UNCHANGED <<testVars, excitonVars, demoVars, spinBosonVars>>

\* mt.thickness_array[1] = t
SetThickness ==
    \E t \in Thicknesses :
        /\ thickness_array' = [thickness_array EXCEPT ![1] = t]
        /\ SetAttr
        /\ UNCHANGED <<wavelength_array, wavenumber_array, polarization,
                       incident_angle>>

\* the polarization values a caller may assign
Polarizations == {"s", "p", "x"}

\* mt.polarization = p
SetPolarization ==
    \E p \in Polarizations :
        /\ polarization' = p
        /\ SetAttr
        /\ UNCHANGED <<thickness_array, wavelength_array, wavenumber_array,
                       incident_angle>>

\* mt.incident_angle = a
SetIncidentAngle ==
    \E a \in Angles :
        /\ incident_angle' = a
        /\ SetAttr
        /\ UNCHANGED <<thickness_array, wavelength_array, wavenumber_array,
                       polarization>>

\* the wavelength grids a caller may assign, in units of 400/9 nm: the
\* constructor's, 800-1200 nm in 10 points, the constructor's reversed, and
\* 400-800 nm in 2 points
Grids ==
    {InitWavelengthArray,
     np_linspace(18, 27, number_of_wavelengths),
     [x \in DOMAIN InitWavelengthArray |->
         InitWavelengthArray[number_of_wavelengths - 1 - x]],
     np_linspace(9, 18, 2)}

\* mt.wavelength_array = g
SetWavelengthArray ==
    \E g \in Grids :
        /\ wavelength_array' = g
        /\ SetAttr
        /\ UNCHANGED <<thickness_array, wavenumber_array, polarization,
                       incident_angle>>

Next ==
    \/ ComputeSpectrum
    \/ CallComputeTm
    \/ CallComputeDm
    \/ CallComputePm
    \/ CallComputeKz
    \/ SetThickness
    \/ SetPolarization
    \/ SetIncidentAngle
    \/ SetWavelengthArray

Spec == Init /\ [][Next]_vars

-----------------------------------------------------------------------------
(* test_compute_stpv_power_density (src/wpspecdev/tests/test_therml.py)    *)
(* The test builds [Air, TiN(400 nm), Air] at 5000 K through the factory   *)
(* and asserts on the attribute stpv_power_density.  The value the factory *)
(* computes is the input of the test; power densities are integers, W/m^2. *)

\* the reference value of the assert (line 48)
ReferencePowerDensity == 3863945

\* the third argument of np.isclose in the assert (line 48): rtol = 1e4,
\* as the fraction n / d
RTol == [n |-> 10000, d |-> 1]

\* x * d <= n * b for naturals, without a product beyond 32 bits when d = 1
ScaledLeq(x, d, n, b) ==
    IF d = 1 THEN (x + n - 1) \div n <= b ELSE x * d <= n * b

\* np.isclose(a, b, rtol): |a - b| <= atol + rtol * |b| with atol = 1e-8.
\* For integers a, b and rtol = n / d with d < 10^8 the term atol cannot
\* decide the comparison: d * |a - b| <= d * atol + n * |b| has integers on
\* both sides but for d * atol < 1.
np_isclose(a, b, rtol) == ScaledLeq(Abs(a - b), rtol.d, rtol.n, Abs(b))

\* the values of stpv_power_density tried: the reference and MaxSteps steps
\* of a quarter of a percent of it to either side
MaxSteps == 60

PowerStep == ReferencePowerDensity \div 400

PowerDensities ==
    {ReferencePowerDensity + j * PowerStep : j \in -MaxSteps .. MaxSteps}

\* lines 41-42: test = sf.spectrum_factory("Tmm", test_args)
InitTest ==
    /\ stpv_power_density \in PowerDensities
    /\ test_outcome = "not_run"
    /\ NoTmmDriver
    /\ NoExcitonDriver
    /\ NoDemo
    /\ NoSpinBosonDriver

\* line 48: assert np.isclose(test.stpv_power_density, 3863945.0, 1e4)
AssertStpvPowerDensity ==
    /\ test_outcome = "not_run"
    /\ test_outcome' = IF np_isclose(stpv_power_density,
                                     ReferencePowerDensity, RTol)
                       THEN "passed" ELSE "failed"
    /\ UNCHANGED <<stpv_power_density, tmmVars, excitonVars, demoVars,
                   spinBosonVars>>

NextTest == AssertStpvPowerDensity

SpecTest == InitTest /\ [][NextTest]_vars

-----------------------------------------------------------------------------
(* ExcitonDriver (src/wptherml/exciton.py)                                 *)
(* Vectors have integer components and are functions on 0..2; coords is    *)
(* 3 x N, coords[a][i] being component a of monomer i.  Energies and       *)
(* matrix elements are exact rationals.                                    *)

\* np.array([x, y, ...]) of a tuple
np_array(t) == [a \in 0 .. Len(t) - 1 |-> t[a + 1]]

\* np.dot of two vectors of length 3
np_dot(a, b) == a[0] * b[0] + a[1] * b[1] + a[2] * b[2]

\* np.sqrt of a perfect square
np_sqrt_int(k) == CHOOSE s \in 0 .. k : s * s = k

\* the largest number_of_monomers tried
MaxMonomers == 4

\* the values of args tried; the first of each set is the default that
\* parse_input takes when the key is absent (lines 43, 47, 51, 56, 60)
ExcitonEnergies == {Rational(1, 2), Rational(2, 1)}

Monomers == 1 .. MaxMonomers

Displacements ==
    {np_array(<<1, 0, 0>>), np_array(<<0, 2, 0>>), np_array(<<3, 0, 4>>)}

Dipoles ==
    {np_array(<<0, 0, 1>>), np_array(<<1, 0, 0>>), np_array(<<1, 1, 0>>)}

RefractiveIndices == {1, 2}

\* lines 74-77: coords[:, i] = displacement_between_monomers * i
Coords(displacement, N) ==
    [a \in 0 .. 2 |-> [i \in 0 .. N - 1 |-> displacement[a] * i]]

\* np.zeros((N, N))
np_zeros(N) == [n \in 0 .. N - 1 |-> [m \in 0 .. N - 1 |-> Rational(0, 1)]]

\* the position numpy reads for index k of an axis of length N: a negative
\* index counts from the end
PyIndex(k, N) == IF k < 0 THEN k + N ELSE k

\* coords[:, k]
Column(c, k) == [a \in 0 .. 2 |-> c[a][PyIndex(k, number_of_monomers)]]

\* lines 79-95: exciton_energy * (n == m)
_compute_H0_element(n, m) ==
    IF n = m THEN exciton_energy ELSE Rational(0, 1)

\* the expression of lines 129-141 and of line 167:
\* (1 / (n^2 |r|^3)) * (mu.mu - 3 * (mu.r)(r.mu) / |r|^2)
DipoleDipole(r_vector) ==
    LET r_scalar == np_sqrt_int(np_dot(r_vector, r_vector))
        mu       == transition_dipole_moment
    IN  Mul(Rational(1, refractive_index * refractive_index
                        * r_scalar * r_scalar * r_scalar),
            Sub(Rational(np_dot(mu, mu), 1),
                Rational(3 * np_dot(mu, r_vector) * np_dot(r_vector, mu),
                         r_scalar * r_scalar)))

\* lines 147-167
_compute_2D_dd_coupling(r_vector) == DipoleDipole(r_vector)

\* lines 97-145: the arguments are lowered by one (lines 121-122) before
\* they index coords
_compute_dipole_dipole_coupling(n, m) ==
    LET _n     == n - 1
        _m     == m - 1
        cm     == Column(coords, _m)
        cn     == Column(coords, _n)
        _r_vec == [a \in 0 .. 2 |-> cm[a] - cn[a]]
    IN  IF _n # _m THEN DipoleDipole(_r_vec) ELSE Rational(0, 1)

\* lines 23-37 and parse_input, lines 39-77
InitExciton ==
    /\ exciton_energy \in ExcitonEnergies
    /\ number_of_monomers \in Monomers
    /\ displacement_between_monomers \in Displacements
    /\ transition_dipole_moment \in Dipoles
    /\ refractive_index \in RefractiveIndices
    /\ coords = Coords(displacement_between_monomers, number_of_monomers)
    /\ exciton_hamiltonian = np_zeros(number_of_monomers)
    /\ exciton_call = "__init__"
    /\ NoTmmDriver
    /\ NoTest
    /\ NoDemo
    /\ NoSpinBosonDriver

\* lines 169-196: the loops call both helpers with the python indices
BuildExcitonHamiltonian ==
    /\ exciton_hamiltonian' =
           [_n \in 0 .. number_of_monomers - 1 |->
               [_m \in 0 .. number_of_monomers - 1 |->
                   Add(_compute_H0_element(_n, _m),
                       _compute_dipole_dipole_coupling(_n, _m))]]
    /\ exciton_call' = "build_exciton_hamiltonian"
    /\ UNCHANGED <<exciton_energy, number_of_monomers,
                   displacement_between_monomers, transition_dipole_moment,
                   refractive_index, coords>>
    /\ UNCHANGED <<tmmVars, testVars, demoVars, spinBosonVars>>

NextExciton == BuildExcitonHamiltonian

SpecExciton == InitExciton /\ [][NextExciton]_vars

-----------------------------------------------------------------------------
(* The finite-difference script src/examples/TiN_stpv_demo.py, lines 40-70 *)
(* `pc` is the line that runs next.  Lengths are integers in nm, so the    *)
(* rounding of 230e-9 + 1e-9 - 2e-9 in doubles is not modelled.  The       *)
(* radiated powers come from wpspecdev code that is not part of the source *)
(* tree; a power is kept as the quantity and the configuration it was      *)
(* computed for.                                                           *)

\* 'Thickness_List' (line 12) with thickness d for layer 1
ThicknessList(d) == np_array(<<0, d, 485, 688, 13, 73, 34, 54, 200, 0>>)

\* thickness of layer 1 in 'Thickness_List' (line 12), in nm
Sio2Thickness == 230

\* layer 1 starts at Sio2Thickness .. Sio2Thickness + MaxOffset
MaxOffset == 4

\* _delta_d_sio2 is 1 .. MaxDelta nm (the script has 1e-9)
MaxDelta == 3

Quantities ==
    {"solar_radiated_power", "thermal_radiated_power",
     "atmospheric_radiated_power"}

\* the value of quantity q for the configuration of t
Radiated(q, t) ==
    [quantity |-> q, thickness_array |-> t.thickness_array,
     incident_angle |-> t.incident_angle]

\* test.compute_cooling(): regenerates the three powers from the current
\* thickness_array and incident_angle
compute_cooling(t) ==
    [t EXCEPT !.solar_radiated_power = Radiated("solar_radiated_power", t),
              !.thermal_radiated_power = Radiated("thermal_radiated_power", t),
              !.atmospheric_radiated_power =
                  Radiated("atmospheric_radiated_power", t)]

\* line 45: test.thickness_array[1] += _delta_d_sio2
ForwardStep(d, delta) == d + delta

BackwardStepByDelta(d, delta) == d - delta

\* line 57: test.thickness_array[1] -= 2 * _delta_d_sio2
BackwardStep(d, delta) == d - 2 * delta

\* lines 68-70: (f - b) / (2 * _delta_d_sio2), kept unevaluated
NumericGradient(f, b, delta) ==
    [minuend |-> f, subtrahend |-> b, divisor |-> 2 * delta]

\* lines 48-50 and 59-61: the three powers of `test` as they are now
ReadPowers ==
    [kind |-> "powers",
     solar_radiated_power |-> test.solar_radiated_power,
     thermal_radiated_power |-> test.thermal_radiated_power,
     atmospheric_radiated_power |-> test.atmospheric_radiated_power]

\* lines 9-18 and 41: the object the factory returns, with 'Cooling': True,
\* and the displacement
InitDemo ==
    /\ pc = 43
    /\ d0 \in Sio2Thickness .. Sio2Thickness + MaxOffset
    /\ \E a \in Angles, sa \in Angles :
           test = compute_cooling(
                      [thickness_array |-> ThicknessList(d0),
                       incident_angle |-> a,
                       solar_angle |-> sa,
                       solar_radiated_power |-> Undef,
                       thermal_radiated_power |-> Undef,
                       atmospheric_radiated_power |-> Undef])
    /\ _delta_d_sio2 \in 1 .. MaxDelta
    /\ forward = Undef
    /\ backward = Undef
    /\ numeric_grad = Undef
    /\ NoTmmDriver
    /\ NoTest
    /\ NoExcitonDriver
    /\ NoSpinBosonDriver

\* a statement of the script at line `at`, followed by the one at `to`
Statement(at, to) ==
    /\ pc = at
    /\ pc' = to
    /\ UNCHANGED <<_delta_d_sio2, d0, tmmVars, testVars, excitonVars,
                   spinBosonVars>>

\* line 43: test.incident_angle = test.solar_angle
Line43 ==
    /\ Statement(43, 45)
    /\ test' = [test EXCEPT !.incident_angle = test.solar_angle]
    /\ UNCHANGED <<forward, backward, numeric_grad>>

\* line 45: test.thickness_array[1] += _delta_d_sio2
Line45 ==
    /\ Statement(45, 46)
    /\ test' = [test EXCEPT !.thickness_array[1] =
                                ForwardStep(@, _delta_d_sio2)]
    /\ UNCHANGED <<forward, backward, numeric_grad>>

\* line 46: test.compute_cooling()
Line46 ==
    /\ Statement(46, 48)
    /\ test' = compute_cooling(test)
    /\ UNCHANGED <<forward, backward, numeric_grad>>

\* lines 48-50: _solar_power_f = test.solar_radiated_power, ...
Lines48To50 ==
    /\ Statement(48, 57)
    /\ forward' = ReadPowers
    /\ UNCHANGED <<test, backward, numeric_grad>>

\* line 57: test.thickness_array[1] -= 2 * _delta_d_sio2
Line57 ==
    /\ Statement(57, 58)
    /\ test' = [test EXCEPT !.thickness_array[1] =
                                BackwardStep(@, _delta_d_sio2)]
    /\ UNCHANGED <<forward, backward, numeric_grad>>

\* line 58: test.compute_cooling()
Line58 ==
    /\ Statement(58, 59)
    /\ test' = compute_cooling(test)
    /\ UNCHANGED <<forward, backward, numeric_grad>>

\* lines 59-61: _solar_power_b = test.solar_radiated_power, ...
Lines59To61 ==
    /\ Statement(59, 68)
    /\ backward' = ReadPowers
    /\ UNCHANGED <<test, forward, numeric_grad>>

\* the end of the script
Done == 81

\* lines 68-70: the three numeric gradients
Lines68To70 ==
    /\ Statement(68, Done)
    /\ numeric_grad' =
           [q \in Quantities |->
               NumericGradient(forward[q], backward[q], _delta_d_sio2)]
    /\ UNCHANGED <<test, forward, backward>>

NextDemo ==
    \/ Line43
    \/ Line45
    \/ Line46
    \/ Lines48To50
    \/ Line57
    \/ Line58
    \/ Lines59To61
    \/ Lines68To70

SpecDemo == InitDemo /\ [][NextDemo]_vars

-----------------------------------------------------------------------------
(* SpinBosonDriver (src/wptherml/spin_boson.py)                            *)
(* `self` is the object's attribute dictionary: its domain is the set of   *)
(* attribute names assigned so far, and reading a name outside it is the   *)
(* AttributeError Python raises.  A method is the outcome of one call: the *)
(* attributes after it and the exception it ends with.  Energies in eV are *)
(* integers; an energy in atomic units is kept as the rational multiple of *)
(* ev_to_au it is, [ev_to_au |-> q].  The entries of the ladder matrices   *)
(* are square roots of integers, [sqrt_of |-> i], and products of two of   *)
(* them are taken exactly, so the rounding of np.sqrt(i) * np.sqrt(i) in   *)
(* doubles is not modelled.  compute_boson_energy_element and              *)
(* compute_spectrum assign no attribute and are left out.                  *)

\* the largest number_of_excitons and number_of_boson_levels given in args
MaxExcitons == 2

MaxBosonLevels == 3

\* the keys parse_input recognises (lines 72, 77, 82, 87)
KeyNames ==
    {"number_of_excitons", "number_of_boson_levels", "exciton_energy_ev",
     "boson_energy_ev"}

\* the spellings of the keys tried: all lowercase or all uppercase
Styles == {"lower", "upper"}

str_upper ==
    [number_of_excitons |-> "NUMBER_OF_EXCITONS",
     number_of_boson_levels |-> "NUMBER_OF_BOSON_LEVELS",
     exciton_energy_ev |-> "EXCITON_ENERGY_EV",
     boson_energy_ev |-> "BOSON_ENERGY_EV"]

Spell(style, k) == IF style = "upper" THEN str_upper[k] ELSE k

\* k.lower()
str_lower(k) ==
    IF k \in KeyNames THEN k ELSE CHOOSE n \in KeyNames : str_upper[n] = k

\* a dict with no key, and obj with name set to v
EmptyDict == [k \in {} |-> 0]

Assign(obj, name, v) ==
    (name :> v) @@ [k \in DOMAIN obj \ {name} |-> obj[k]]

\* the args dicts tried: the keys in `present`, spelled in `style`
ArgsDict(style, present, values) ==
    [k \in {Spell(style, n) : n \in present} |-> values[str_lower(k)]]

\* line 62: {k.lower(): v for k, v in args.items()}
LowerKeys(a) ==
    [k \in {str_lower(x) : x \in DOMAIN a} |->
        a[CHOOSE x \in DOMAIN a : str_lower(x) = k]]

\* q * 3.6749322175665e-2
TimesEvToAu(q) == [ev_to_au |-> q]

\* the product of the number q and the energy a, and the sum of two energies
AuScale(q, a) == TimesEvToAu(Mul(q, a.ev_to_au))

AuAdd(a, b) == TimesEvToAu(Add(a.ev_to_au, b.ev_to_au))

\* lines 71-94
parse_input(obj, a) ==
    LET o1 == IF "number_of_excitons" \in DOMAIN a
              THEN Assign(obj, "number_of_excitons", a.number_of_excitons)
              ELSE Assign(obj, "exciton_energy", 1)
        o2 == IF "number_of_boson_levels" \in DOMAIN a
              THEN Assign(o1, "number_of_boson_levels",
                          a.number_of_boson_levels)
              ELSE Assign(o1, "number_of_boson_levels", 2)
        o3 == IF "exciton_energy_ev" \in DOMAIN a
              THEN Assign(o2, "exciton_energy_ev", a.exciton_energy_ev)
              ELSE Assign(o2, "exciton_energy_ev", 1)
        o4 == IF "boson_energy_ev" \in DOMAIN a
              THEN Assign(o3, "boson_energy_ev", a.boson_energy_ev)
              ELSE Assign(o3, "boson_energy_ev", 1)
        o5 == Assign(o4, "exciton_energy_au",
                     AuScale(Rational(o4.exciton_energy_ev, 1), o4.ev_to_au))
    IN  Assign(o5, "boson_energy_au",
               AuScale(Rational(o5.boson_energy_ev, 1), o5.ev_to_au))

\* lines 58-68
__init__(a) ==
    parse_input(Assign(EmptyDict, "ev_to_au", TimesEvToAu(Rational(1, 1))),
                LowerKeys(a))

\* np.eye(n)
np_eye(n) ==
    [r \in 0 .. n - 1 |-> [c \in 0 .. n - 1 |-> IF r = c THEN 1 ELSE 0]]

Rows(M) == Cardinality(DOMAIN M)

Cols(M) == Cardinality(DOMAIN M[0])

\* the shape of np.kron(A, B), and the entries of A and of B whose
\* product is its entry [i, j]
KronRows(A, B) == 0 .. Rows(A) * Rows(B) - 1

KronCols(A, B) == 0 .. Cols(A) * Cols(B) - 1

KronLeft(A, B, i, j) == A[i \div Rows(B)][j \div Cols(B)]

KronRight(A, B, i, j) == B[i % Rows(B)][j % Cols(B)]

\* np.kron(A, B) of two matrices of plain numbers
np_kron(A, B) ==
    [i \in KronRows(A, B) |-> [j \in KronCols(A, B) |->
        KronLeft(A, B, i, j) * KronRight(A, B, i, j)]]

\* an energy a times the 0.0 or 1.0 of a basis matrix
EnergyTimes(a, b) == AuScale(Rational(b, 1), a)

np_kron_energy_reversed(A, B) ==
    [i \in KronRows(A, B) |-> [j \in KronCols(A, B) |->
        EnergyTimes(A[i % Rows(A)][j % Cols(A)],
                    B[i \div Rows(A)][j \div Cols(A)])]]

\* np.kron(A, B) of a matrix of energies and a matrix of plain numbers
np_kron_energy(A, B) ==
    [i \in KronRows(A, B) |-> [j \in KronCols(A, B) |->
        EnergyTimes(KronLeft(A, B, i, j), KronRight(A, B, i, j))]]

\* M.transpose().conjugate() of a real matrix
Dagger(M) == [r \in DOMAIN M[0] |-> [c \in DOMAIN M |-> M[c][r]]]

\* np.dot(A, B) of two ladder matrices: sum over k of A[r][k] * B[k][c],
\* each product being the square root of the product of the radicands
RECURSIVE LadderDotSum(_, _, _, _, _)
LadderDotSum(A, B, r, c, k) ==
    IF k < 0 THEN 0
    ELSE np_sqrt_int(A[r][k].sqrt_of * B[k][c].sqrt_of)
         + LadderDotSum(A, B, r, c, k - 1)

LadderDot(A, B) ==
    [r \in DOMAIN A |-> [c \in DOMAIN B[0] |->
        LadderDotSum(A, B, r, c, Rows(B) - 1)]]

\* the result of a call: the attributes it leaves and how it ends
Returns(obj) == [self |-> obj, exc |-> NoExc]

Raises(obj, line) == [self |-> obj, exc |-> Raise("AttributeError", line)]

HasAttrs(obj, names) == names \subseteq DOMAIN obj

\* lines 97-117
build_boson_basis(obj) ==
    Returns(Assign(obj, "boson_basis", np_eye(obj.number_of_boson_levels)))

\* lines 119-148
build_exciton_basis(obj) ==
    LET o1 == Assign(obj, "single_exciton_basis",
                     np_array(<<np_array(<<1, 0>>), np_array(<<0, 1>>)>>))
    IN  IF ~HasAttrs(o1, {"number_of_excitons"}) THEN Raises(o1, 147)
        ELSE LET o2 == Assign(o1, "exciton_basis_dimension",
                              2 ^ o1.number_of_excitons)
             IN  Returns(Assign(o2, "n_exciton_basis",
                                np_eye(o2.exciton_basis_dimension)))

\* lines 150-175
build_exciton_boson_basis(obj) ==
    IF ~HasAttrs(obj, {"boson_basis", "n_exciton_basis"})
    THEN Raises(obj, 175)
    ELSE Returns(Assign(obj, "exciton_boson_basis",
                        np_kron(obj.boson_basis, obj.n_exciton_basis)))

\* lines 201-203: np.zeros((L, L)), then b_matrix[i - 1, i] = np.sqrt(i) for
\* i in range(1, L); the 0.0 of np.zeros is written as the root of 0
BMatrix(L) ==
    [r \in 0 .. L - 1 |-> [c \in 0 .. L - 1 |->
        IF c \in 1 .. L - 1 /\ r = c - 1 THEN np_sqrt(c) ELSE np_sqrt(0)]]

\* lines 177-205
build_bosonic_ladder_operators(obj) ==
    LET o1 == Assign(obj, "b_matrix", BMatrix(obj.number_of_boson_levels))
    IN  Returns(Assign(o1, "b_dagger_matrix", Dagger(o1.b_matrix)))

\* line 241: boson_energy_au * boson_number_operator
\*           + 0.5 * boson_energy_au * np.eye(number_of_boson_levels)
EnergyOperatorOnBosonSpace(obj) ==
    LET eye == np_eye(obj.number_of_boson_levels)
    IN  [r \in DOMAIN eye |-> [c \in DOMAIN eye |->
            AuAdd(AuScale(Rational(obj.boson_number_operator[r][c], 1),
                          obj.boson_energy_au),
                  AuScale(Mul(Rational(1, 2), Rational(eye[r][c], 1)),
                          obj.boson_energy_au))]]

BosonEnergyOperatorWithoutExcitons(obj) ==
    IF ~HasAttrs(obj, {"b_dagger_matrix", "b_matrix"}) THEN Raises(obj, 238)
    ELSE LET o1 == Assign(obj, "boson_number_operator",
                          LadderDot(obj.b_dagger_matrix, obj.b_matrix))
         IN  Returns(Assign(o1, "boson_energy_operator",
                            EnergyOperatorOnBosonSpace(o1)))

\* lines 208-246
build_boson_energy_operator(obj) ==
    IF ~HasAttrs(obj, {"b_dagger_matrix", "b_matrix"}) THEN Raises(obj, 238)
    ELSE LET o1 == Assign(obj, "boson_number_operator",
                          LadderDot(obj.b_dagger_matrix, obj.b_matrix))
         IN  IF ~HasAttrs(o1, {"n_exciton_basis"}) THEN Raises(o1, 246)
             ELSE Returns(Assign(o1, "boson_energy_operator",
                                 np_kron_energy(
                                     EnergyOperatorOnBosonSpace(o1),
                                     o1.n_exciton_basis)))

\* SpinBosonDriver(args)
InitSpinBoson ==
    /\ \E style \in Styles, present \in SUBSET KeyNames,
          n \in 1 .. MaxExcitons, l \in 1 .. MaxBosonLevels :
           sb_args = ArgsDict(style, present,
                              [number_of_excitons |-> n,
                               number_of_boson_levels |-> l,
                               exciton_energy_ev |-> 2,
                               boson_energy_ev |-> 2])
    /\ self = __init__(sb_args)
    /\ sb_call = "__init__"
    /\ sb_exc = NoExc
    /\ sb_done = {}
    /\ NoTmmDriver
    /\ NoTest
    /\ NoExcitonDriver
    /\ NoDemo

\* a call of the method `name` with outcome r
SpinBosonCall(name, r) ==
    /\ self' = r.self
    /\ sb_exc' = r.exc
    /\ sb_call' = name
    /\ sb_done' = IF r.exc = NoExc THEN sb_done \cup {name} ELSE sb_done
    /\ UNCHANGED <<tmmVars, testVars, excitonVars, demoVars>>

\* sb.build_boson_basis()
BuildBosonBasis ==
    /\ SpinBosonCall("build_boson_basis", build_boson_basis(self))
    /\ UNCHANGED sb_args

\* sb.build_exciton_basis()
BuildExcitonBasis ==
    /\ SpinBosonCall("build_exciton_basis", build_exciton_basis(self))
    /\ UNCHANGED sb_args

\* sb.build_exciton_boson_basis()
BuildExcitonBosonBasis ==
    /\ SpinBosonCall("build_exciton_boson_basis",
                     build_exciton_boson_basis(self))
    /\ UNCHANGED sb_args

\* sb.build_bosonic_ladder_operators()
BuildBosonicLadderOperators ==
    /\ SpinBosonCall("build_bosonic_ladder_operators",
                     build_bosonic_ladder_operators(self))
    /\ UNCHANGED sb_args

\* sb.build_boson_energy_operator()
BuildBosonEnergyOperator ==
    /\ SpinBosonCall("build_boson_energy_operator",
                     build_boson_energy_operator(self))
    /\ UNCHANGED sb_args

NextSpinBoson ==
    \/ BuildBosonBasis
    \/ BuildExcitonBasis
    \/ BuildExcitonBosonBasis
    \/ BuildBosonicLadderOperators
    \/ BuildBosonEnergyOperator

SpecSpinBoson == InitSpinBoson /\ [][NextSpinBoson]_vars

-----------------------------------------------------------------------------
(* Properties                                                              *)

\* the last operation was a call of compute_spectrum, which has ended
SpectrumCalled == last_call.op = "compute_spectrum"

\* C1: whenever compute_spectrum, or _compute_dm itself, runs with a
\* polarization other than 's' and 'p', it ends with an
\* InvalidPolarizationError.
C1_InvalidPolarizationRaises ==
    (last_call.op \in {"compute_spectrum", "_compute_dm"}
        /\ polarization \notin {"s", "p"})
    => exc.type = "InvalidPolarizationError"

\* C2: compute_spectrum reads no derived array that was not produced for the
\* configuration it runs on.
C2_NoStaleRead == SpectrumCalled => stale_reads = {}

\* the product the composition rule of the transfer matrix prescribes for
\* wavelength index x: D0^-1, then D, P, D^-1 of each interior layer in stack
\* order, then D of the last layer
RECURSIVE InteriorFactors(_, _)
InteriorFactors(x, l) ==
    IF l >= number_of_layers - 1 THEN <<>>
    ELSE <<[kind |-> "D", layer |-> l, idx |-> x],
           [kind |-> "P", layer |-> l, idx |-> x],
           [kind |-> "Dinv", layer |-> l, idx |-> x]>>
         \o InteriorFactors(x, l + 1)

OrderedProduct(x) ==
    <<[kind |-> "Dinv", layer |-> 0, idx |-> x]>>
    \o InteriorFactors(x, 1)
    \o <<[kind |-> "D", layer |-> number_of_layers - 1, idx |-> x]>>

\* C3: after compute_spectrum, the transfer matrix of every wavelength is the
\* product of the layer matrices in physical layer order.
C3_TmIsOrderedProduct ==
    SpectrumCalled =>
        _tm = Array([x \in DOMAIN wavelength_array |-> OrderedProduct(x)])

OnGrid(a) == a.kind = "array" /\ DOMAIN a.v = DOMAIN wavelength_array

\* C5: compute_spectrum returns with reflectivity_array, transmissivity_array
\* and emissivity_array defined, one value per entry of wavelength_array.
C5_SpectraDefined ==
    SpectrumCalled =>
        /\ exc = NoExc
        /\ OnGrid(reflectivity_array)
        /\ OnGrid(transmissivity_array)
        /\ OnGrid(emissivity_array)

\* C6: at every wavelength index the spectra of one recomputation satisfy
\* emissivity = 1 - R - T.
C6_EnergyBalance ==
    SpectrumCalled =>
        \A x \in DOMAIN wavelength_array :
            /\ OnGrid(reflectivity_array)
            /\ OnGrid(transmissivity_array)
            /\ OnGrid(emissivity_array)
            /\ emissivity_array.v[x] =
                   Sub(Sub(Rational(1, 1), reflectivity_array.v[x]),
                       transmissivity_array.v[x])

\* every attribute compute_spectrum assigns holds a value produced from the
\* current configuration
FullyRegenerated ==
    /\ _k0_array = Array(K0Array(wavelength_array))
    /\ _kx_array.kind = "array"
    /\ _kzl_array.kind = "array"
    /\ _tm # Undef
    /\ reflectivity_array # Undef
    /\ transmissivity_array # Undef
    /\ emissivity_array # Undef

\* C7: a compute_spectrum that fails leaves the derived and output attributes
\* all as they were before the call (or all regenerated), never some old and
\* some new.
C7_NoPartialUpdate ==
    (SpectrumCalled /\ exc # NoExc) => (Derived = pre \/ FullyRegenerated)

StrictlyIncreasing(a) ==
    \A x \in DOMAIN a : (x + 1) \in DOMAIN a => a[x] < a[x + 1]

\* C9: compute_spectrum on a stack of fewer than two layers, or on a grid
\* that is not strictly increasing, ends with a ConfigurationError and has
\* computed no derived array.
C9_ConfigurationError ==
    (SpectrumCalled /\ (ArrayLen(thickness_array) < 2
                          \/ ~StrictlyIncreasing(wavelength_array)))
    => (exc.type = "ConfigurationError" /\ Derived = pre)

\* some layer's D matrix, which the transfer matrix needs inverted, has
\* determinant zero in the current configuration
SingularInterface ==
    \E x \in DOMAIN _refractive_index_array :
        \E c \in DOMAIN _refractive_index_array[x] :
            Determinant(DMatrix(polarization, incident_angle,
                                _refractive_index_array[x][c])).n = 0

\* C10: compute_spectrum on a valid polarization for which a matrix to be
\* inverted is singular ends with a SingularTransferMatrixError.
C10_SingularRaises ==
    (SpectrumCalled /\ polarization \in {"s", "p"} /\ SingularInterface)
    => exc.type = "SingularTransferMatrixError"

\* C11: the first and the last layer have thickness entry 0 and every
\* interior layer has a strictly positive thickness.
C11_BoundaryAndInteriorThickness ==
    /\ thickness_array[0] = 0
    /\ thickness_array[number_of_layers - 1] = 0
    /\ \A i \in 1 .. number_of_layers - 2 : thickness_array[i] > 0

\* compute_spectrum got as far as assigning _kx_array and _kzl_array
WavevectorsComputed == SpectrumCalled /\ exc.line # 138

\* C15: after compute_spectrum, for every wavelength index x and layer l,
\* k0 = 2*pi/lambda, kx = n_incident * sin(theta) * k0 and the square of the
\* layer's normal wavevector is (n_l * k0)^2 - kx^2.
C15_WavevectorFormulas ==
    WavevectorsComputed =>
        \A x \in DOMAIN wavelength_array :
            LET k0 == Div(TwoPi, Rational(wavelength_array[x], 1))
                kx == Mul(Mul(LayerIndices[0], np_sin(incident_angle)), k0)
            IN  /\ _k0_array.v[x] = k0
                /\ _kx_array.v[x] = kx
                /\ \A l \in 0 .. number_of_layers - 1 :
                       _kzl_array.v[x][l] =
                           np_sqrt(Sub(Square(Mul(LayerIndices[l], k0)),
                                       Square(kx)))

\* C16: after compute_spectrum, _tm holds one matrix per wavelength of the
\* grid, and the matrix of index x is a product with a factor of every layer
\* and of wavelength index x only.
C16_TmPerWavelength ==
    SpectrumCalled =>
        /\ _tm.kind = "array"
        /\ DOMAIN _tm.v = DOMAIN wavelength_array
        /\ \A x \in DOMAIN wavelength_array :
               /\ \A k \in DOMAIN _tm.v[x] : _tm.v[x][k].idx = x
               /\ {_tm.v[x][k].layer : k \in DOMAIN _tm.v[x]}
                      = 0 .. number_of_layers - 1

\* C17: once __init__ has written it, and when compute_spectrum has read it,
\* _refractive_index_array[l][w] exists for every layer l and wavelength
\* index w and is the refractive index of layer l.
C17_LayerByWavelengthLayout ==
    (last_call.op = "__init__" \/ SpectrumCalled) =>
        \A l \in 0 .. number_of_layers - 1 :
            \A w \in 0 .. number_of_wavelengths - 1 :
                /\ l \in DOMAIN _refractive_index_array
                /\ w \in DOMAIN _refractive_index_array[l]
                /\ _refractive_index_array[l][w] = LayerIndices[l]

\* a + b
\* the product of two 2x2 matrices
MatMul(A, B) ==
    [r \in 0 .. 1 |-> [c \in 0 .. 1 |->
        Add(Mul(A[r][0], B[0][c]), Mul(A[r][1], B[1][c]))]]

Identity ==
    [r \in 0 .. 1 |-> [c \in 0 .. 1 |->
        IF r = c THEN Rational(1, 1) ELSE Rational(0, 1)]]

\* what line 254 leaves in D_inv is a 2x2 matrix, the two-sided inverse of D
IsMatrixInverse(D, dinv) ==
    /\ dinv.kind = "matrix"
    /\ MatMul(D, dinv.v) = Identity
    /\ MatMul(dinv.v, D) = Identity

\* C18: whenever _compute_dm has run, for every wavelength index and layer
\* whose D matrix is non-singular the D_inv of line 254 is a 2x2 matrix with
\* D * D_inv = D_inv * D = identity.
C18_DInvIsMatrixInverse ==
    last_call.op = "_compute_dm" =>
        \A x \in DOMAIN _refractive_index_array :
            \A c \in DOMAIN _refractive_index_array[x] :
                LET D == DMatrix(polarization, incident_angle,
                                 _refractive_index_array[x][c])
                IN  Determinant(D).n # 0 => IsMatrixInverse(D, DInv(D))

\* relative deviation of v from the reference of at most one percent
WithinOnePercent(v) ==
    100 * Abs(v - ReferencePowerDensity) <= ReferencePowerDensity

\* C14: test_compute_stpv_power_density accepts only values of
\* stpv_power_density within 1% of the reference 3863945.0; a value that
\* deviates from the reference by more than 1% does not pass the test.
C14_RejectsBeyondOnePercent ==
    test_outcome = "passed" => WithinOnePercent(stpv_power_density)

\* the separation vector between monomer n and monomer m
Separation(n, m) == [a \in 0 .. 2 |-> coords[a][m] - coords[a][n]]

\* C19: after build_exciton_hamiltonian, exciton_hamiltonian[n, n] is
\* exciton_energy and, for n # m, exciton_hamiltonian[n, m] is the
\* dipole-dipole coupling at the separation coords[:, m] - coords[:, n],
\* for all python indices n, m in 0..N-1.
C19_CouplingAtSeparation ==
    exciton_call = "build_exciton_hamiltonian" =>
        \A n \in 0 .. number_of_monomers - 1 :
            \A m \in 0 .. number_of_monomers - 1 :
                exciton_hamiltonian[n][m] =
                    IF n = m THEN exciton_energy
                    ELSE _compute_2D_dd_coupling(Separation(n, m))

\* quantity q of the stack whose layer 1 has thickness d, at the solar angle
RadiatedAt(q, d) ==
    [quantity |-> q, thickness_array |-> ThicknessList(d),
     incident_angle |-> test.solar_angle]

\* C20: in the finite-difference script every forward value is the
\* quantity recomputed at d0 + delta, every backward value is the quantity
\* recomputed at d0 - delta, both for the incident angle line 43 sets, and
\* every numeric gradient is (forward - backward) / (2 * delta), the
\* difference centered on d0.
C20_CenteredDifference ==
    \A q \in Quantities :
        /\ forward # Undef =>
               forward[q] = RadiatedAt(q, d0 + _delta_d_sio2)
        /\ backward # Undef =>
               backward[q] = RadiatedAt(q, d0 - _delta_d_sio2)
        /\ numeric_grad # Undef =>
               numeric_grad[q] =
                   [minuend |-> RadiatedAt(q, d0 + _delta_d_sio2),
                    subtrahend |-> RadiatedAt(q, d0 - _delta_d_sio2),
                    divisor |-> 2 * _delta_d_sio2]

\* the script has run to its end and the gradients are computed
C20_Witness ==
    /\ pc = Done
    /\ numeric_grad # Undef
    /\ test.thickness_array[1] = d0 - _delta_d_sio2

\* the three builds have returned
OperatorsBuilt ==
    {"build_bosonic_ladder_operators", "build_exciton_basis",
     "build_boson_energy_operator"} \subseteq sb_done

\* C21: after build_bosonic_ladder_operators, build_exciton_basis and
\* build_boson_energy_operator, with L boson levels and N excitons:
\* b[i-1, i]^2 = i for i in 1..L-1 and b is zero elsewhere; the number
\* operator is diagonal with entries 0..L-1; boson_energy_operator is
\* diagonal of dimension L * 2^N with entry
\* boson_energy_au * (floor(k / 2^N) + 1/2) at index k.
C21_LadderAndEnergyOperators ==
    OperatorsBuilt =>
        LET L   == self.number_of_boson_levels
            D   == 2 ^ self.number_of_excitons
            dim == 0 .. L * D - 1
        IN  /\ DOMAIN self.b_matrix = 0 .. L - 1
            /\ \A r \in 0 .. L - 1 : \A c \in 0 .. L - 1 :
                   /\ self.b_matrix[r][c].sqrt_of
                          = IF r = c - 1 THEN c ELSE 0
                   /\ self.boson_number_operator[r][c]
                          = IF r = c THEN r ELSE 0
            /\ DOMAIN self.boson_energy_operator = dim
            /\ \A k \in dim :
                   /\ DOMAIN self.boson_energy_operator[k] = dim
                   /\ \A j \in dim :
                          self.boson_energy_operator[k][j] =
                              IF k = j
                              THEN AuScale(Rational(2 * (k \div D) + 1, 2),
                                           self.boson_energy_au)
                              ELSE TimesEvToAu(Rational(0, 1))

\* the operators are built for at least three levels and two excitons
C21_Witness ==
    /\ OperatorsBuilt
    /\ self.number_of_boson_levels >= 3
    /\ self.number_of_excitons >= 2

\* C22: whatever subset of the recognised keys args has, in whatever
\* letter case, the constructed driver has number_of_excitons,
\* number_of_boson_levels, exciton_energy_ev and boson_energy_ev, each
\* equal to the value supplied under its key when there is one, and
\* build_exciton_basis returns normally.
C22_ConfigurationDefined ==
    /\ \A k \in KeyNames :
           /\ k \in DOMAIN self
           /\ \A x \in DOMAIN sb_args :
                  str_lower(x) = k => self[k] = sb_args[x]
    /\ sb_call = "build_exciton_basis" => sb_exc = NoExc

\* In a step that is a call of `method`, whose result is the attribute
\* `result` and which needs the methods `needs` to have returned before:
\* without them the call raises and leaves `result` unassigned; and if
\* `result` is assigned after the call, they had returned and `result` is
\* square of dimension number_of_boson_levels * 2^number_of_excitons.
BuiltOnlyAfter(method, result, needs) ==
    sb_call' = method =>
        /\ ~(needs \subseteq sb_done) =>
               /\ sb_exc' # NoExc
               /\ result \notin DOMAIN self'
        /\ result \in DOMAIN self' =>
               /\ needs \subseteq sb_done
               /\ Rows(self'[result]) =
                      self'.number_of_boson_levels
                          * 2 ^ self'.number_of_excitons
               /\ Cols(self'[result]) = Rows(self'[result])

\* C23: in any sequence of build calls, build_exciton_boson_basis assigns
\* exciton_boson_basis only if build_boson_basis and build_exciton_basis
\* have run, and build_boson_energy_operator assigns boson_energy_operator
\* only if build_bosonic_ladder_operators and build_exciton_basis have run;
\* called earlier each raises without assigning its result, and an
\* assigned result has dimension number_of_boson_levels * 2^number_of_excitons.
C23_BuildOrder ==
    [][/\ BuiltOnlyAfter("build_exciton_boson_basis", "exciton_boson_basis",
                         {"build_boson_basis", "build_exciton_basis"})
       /\ BuiltOnlyAfter("build_boson_energy_operator",
                         "boson_energy_operator",
                         {"build_bosonic_ladder_operators",
                          "build_exciton_basis"})]_vars

\* exciton_boson_basis is assigned, and the last call, of
\* build_boson_energy_operator before the ladder operators exist, has raised
C23_Witness ==
    /\ "exciton_boson_basis" \in DOMAIN self
    /\ sb_call = "build_boson_energy_operator"
    /\ "build_bosonic_ladder_operators" \notin sb_done
    /\ sb_exc # NoExc
    /\ "boson_energy_operator" \notin DOMAIN self

============================================================================
